---- MODULE Spec2Model ----
(***************************************************************************)
(* OBSConnector (src/OBSO.py): the websocket client of the OBS overlay.    *)
(* One instance, its worker threads (the run() closure of connect()), the  *)
(* threads of the application that call connect(), send() and stop(), the  *)
(* sockets it opens, the status label and the recording indicator that its *)
(* callbacks write, and the apply() thread of Overlay.apply_settings that  *)
(* rewrites the configuration.                                             *)
(* Every statement of the class that reads or writes a shared attribute is *)
(* one step of the thread that executes it.                                *)
(***************************************************************************)
EXTENDS Naturals, Integers, Sequences, FiniteSets, TLC

\* ------------------------------------------------------------ bounds
\* application threads that may be inside connect()/send()/stop() at once
NumCallers == 2
\* calls of connect()/send()/stop() made after construction
MaxCalls == 2
\* sockets that websocket.create_connection hands out
MaxSockets == 2

Callers == 1..NumCallers
\* thread objects: the constructor's, and one per later connect()
Threads == 1..(MaxCalls + 1)
Sockets == 1..MaxSockets

None == 0

\* the configured passwords tried: DEFAULT_CONFIG's empty one and a set one
Passwords == {"", "pw"}

\* what a server can deliver to recv()
\*   empty     : a falsy message
\*   malformed : text that json.loads rejects
\*   ack       : an object whose op is not 5
\*   rec_on    : {op:5, d:{eventType:"RecordStateChanged", eventData:{outputActive:true}}}
\*   rec_off   : the same with outputActive false
\*   event_bad : {op:5, d:{eventType:"RecordStateChanged", eventData: not a mapping}}
Frames == {"empty", "malformed", "ack", "rec_on", "rec_off", "event_bad"}

\* the frames the connector writes
IdentifyFrame == [op |-> 1, rpcVersion |-> 1]

AuthFrame(password) == [op |-> 3, rpcVersion |-> 1, authentication |-> password]

SubscribeFrame(n) == [op |-> 6, requestType |-> "Subscribe", requestId |-> <<"sub_", n>>]

RequestFrame == [op |-> 6, requestType |-> "StartRecord", requestId |-> <<"1">>]

VARIABLES
    should_run,   \* self.should_run
    connected,    \* self.connected
    ws,           \* self.ws: a socket id, or None
    thread,       \* self.thread: a thread id, or None
    request_id,   \* self.request_id
    config,       \* the module-level config mapping
    sockets,      \* socket id -> "none" (not created), "open" or "closed"
    sent,         \* the frames written to the socket self.ws names, in order
    wpc,          \* thread id -> position in run()
    cpc,          \* caller -> position in connect()/send()/stop()
    cjoin,        \* caller -> the thread object its join() waits on
    uiReady,      \* Overlay.setup_ui has created self.status and the indicators
    label,        \* the status the label of the overlay shows
    message,      \* thread id -> the frame recv() returned to it, not yet dealt with
    recording_active, \* Overlay.recording_active
    url,          \* <<host, port>> the socket self.ws names was opened with
    applying,     \* the apply() thread of Overlay.apply_settings: position and form
    calls         \* the calls made after construction: <<operation, alone>>

vars == <<should_run, connected, ws, thread, request_id, config, sockets, sent, wpc,
          cpc, cjoin, uiReady, label, message, recording_active, url, applying, calls>>

shared == <<should_run, connected, ws, thread, request_id, config>>

\* what the fields of the settings window can hold when Apply is pressed
Forms == [host : {"studio"}, port : {"4456", "abc"}, pwd : {""}]

\* no apply() thread is running
NotApplying == [pc |-> "idle", form |-> [host |-> "", port |-> "", pwd |-> ""]]

\* int(text) raises ValueError on text that is not a number
PortRaises(text) == text \notin {"4455", "4456"}

\* int(text)
PortOf(text) == IF text = "4455" THEN 4455 ELSE 4456

\* ------------------------------------------------------------ helpers
NumSockets == Cardinality({s \in Sockets : sockets[s] # "none"})

Alive(t) == t # None /\ wpc[t] \notin {"none", "new", "done", "dead"}

LiveWorkers == {t \in Threads : Alive(t)}

NumThreads == Cardinality({t \in Threads : wpc[t] # "none"})

\* a read or write on socket handle s succeeds only on an open socket
CanWrite(s) == s # None /\ sockets[s] = "open"

Ready(c) == cpc[c] \in {"idle", "raised"}

\* Overlay.update_status: self.status.config(...) needs the label of setup_ui
StatusRaises == ~uiReady

\* json.loads(message) raises on text that is not JSON
DecodeRaises(f) == f = "malformed"

\* ------------------------------------------------------------ initial state
Init ==
    /\ should_run = TRUE
    /\ connected = FALSE
    /\ ws = None
    /\ thread = 1
    /\ request_id = 0
    /\ config \in [obs_host : {"localhost"}, obs_port : {4455}, obs_password : Passwords]
    /\ sockets = [s \in Sockets |-> "none"]
    /\ sent = <<>>
    /\ wpc = [t \in Threads |-> IF t = 1 THEN "test" ELSE "none"]
    /\ cpc = [c \in Callers |-> "idle"]
    /\ cjoin = [c \in Callers |-> None]
    /\ uiReady = FALSE
    /\ label = "none"
    /\ message = [t \in Threads |-> "none"]
    /\ recording_active = FALSE
    /\ url = <<>>
    /\ applying = NotApplying
    /\ calls = <<>>

\* ------------------------------------------------------------ the worker: run()
\* while self.should_run:
WTest(t) ==
    /\ wpc[t] \in {"test", "again"}
    /\ wpc' = [wpc EXCEPT ![t] = IF should_run THEN "open" ELSE "done"]
    /\ UNCHANGED <<url, applying, message, recording_active, shared, sockets, sent, cpc,
                   cjoin, uiReady, label, calls>>

\* self.ws = websocket.create_connection(...): a new socket, or an exception
WOpen(t) ==
    /\ wpc[t] = "open"
    /\ \/ /\ NumSockets < MaxSockets
          /\ ws' = NumSockets + 1
          /\ sockets' = [sockets EXCEPT ![NumSockets + 1] = "open"]
          /\ url' = <<config.obs_host, config.obs_port>>
          /\ sent' = <<>>
          /\ wpc' = [wpc EXCEPT ![t] = "identify"]
       \/ /\ wpc' = [wpc EXCEPT ![t] = "exc"]
          /\ UNCHANGED <<ws, sockets, url, sent>>
    /\ UNCHANGED <<applying, message, recording_active, should_run, connected, thread,
                   request_id, config, cpc, cjoin, uiReady, label, calls>>

\* self.ws.send(json.dumps({"op": 1, ...})), then: if config["obs_password"]:
WIdentify(t) ==
    /\ wpc[t] = "identify"
    /\ IF CanWrite(ws)
         THEN /\ sent' = Append(sent, IdentifyFrame)
              /\ wpc' = [wpc EXCEPT ![t] = IF config.obs_password # ""
                                             THEN "auth" ELSE "setconn"]
         ELSE /\ wpc' = [wpc EXCEPT ![t] = "exc"]
              /\ UNCHANGED sent
    /\ UNCHANGED <<url, applying, message, recording_active, shared, sockets, cpc,
                   cjoin, uiReady, label, calls>>

\* self.ws.send(json.dumps({"op": 3, ...}))
WAuth(t) ==
    /\ wpc[t] = "auth"
    /\ IF CanWrite(ws)
         THEN /\ sent' = Append(sent, AuthFrame(config.obs_password))
              /\ wpc' = [wpc EXCEPT ![t] = "setconn"]
         ELSE /\ wpc' = [wpc EXCEPT ![t] = "exc"]
              /\ UNCHANGED sent
    /\ UNCHANGED <<url, applying, message, recording_active, shared, sockets, cpc,
                   cjoin, uiReady, label, calls>>

\* self.connected = True
WSetConnected(t) ==
    /\ wpc[t] = "setconn"
    /\ connected' = TRUE
    /\ wpc' = [wpc EXCEPT ![t] = "notify"]
    /\ UNCHANGED <<url, applying, message, recording_active, should_run, ws, thread,
                   request_id, config, sockets, sent, cpc, cjoin, uiReady, label,
                   calls>>

\* self.on_status_update("Connected")
WNotify(t) ==
    /\ wpc[t] = "notify"
    /\ IF StatusRaises
         THEN /\ wpc' = [wpc EXCEPT ![t] = "exc"]
              /\ UNCHANGED label
         ELSE /\ label' = "Connected"
              /\ wpc' = [wpc EXCEPT ![t] = "subscribe"]
    /\ UNCHANGED <<url, applying, message, recording_active, shared, sockets, sent, cpc,
                   cjoin, uiReady, calls>>

\* subscribe_events: self.request_id += 1
WSubscribe(t) ==
    /\ wpc[t] = "subscribe"
    /\ request_id' = request_id + 1
    /\ wpc' = [wpc EXCEPT ![t] = "sub_send"]
    /\ UNCHANGED <<url, applying, message, recording_active, should_run, connected, ws,
                   thread, config, sockets, sent, cpc, cjoin, uiReady, label, calls>>

\* subscribe_events: self.ws.send(json.dumps({... f"sub_{self.request_id}" ...})),
\* which reads self.request_id as it is now, inside try/except Exception: print
WSubscribeSend(t) ==
    /\ wpc[t] = "sub_send"
    /\ sent' = IF CanWrite(ws) THEN Append(sent, SubscribeFrame(request_id)) ELSE sent
    /\ wpc' = [wpc EXCEPT ![t] = "inner"]
    /\ UNCHANGED <<url, applying, message, recording_active, shared, sockets, cpc, cjoin,
                   uiReady, label, calls>>

\* while self.connected and self.should_run: when the test fails the try block
\* has ended without an exception and run() is back at its outer test ("again")
WInner(t) ==
    /\ wpc[t] = "inner"
    /\ wpc' = [wpc EXCEPT ![t] = IF connected /\ should_run THEN "recv" ELSE "again"]
    /\ UNCHANGED <<url, applying, message, recording_active, shared, sockets, sent, cpc,
                   cjoin, uiReady, label, calls>>

\* Overlay.handle_obs_event raises on this frame
EventRaises(f) == f = "event_bad" \/ ~uiReady

\* an inner loop that dispatches the event outside the try block: an exception
\* of the event callback leaves run()
AfterFrame_EventEscapes(f) ==
    IF f = "empty" THEN "inner"
    ELSE IF DecodeRaises(f) THEN "exc"
    ELSE IF f \in {"rec_on", "rec_off", "event_bad"} /\ EventRaises(f) THEN "dead"
    ELSE "inner"

\* an inner loop without `if not message: continue`: json.loads("") raises
AfterFrame_NoEmptyTest(f) ==
    IF f = "empty" \/ DecodeRaises(f) THEN "exc"
    ELSE IF f \in {"rec_on", "rec_off", "event_bad"} /\ EventRaises(f) THEN "exc"
    ELSE "inner"

\* where the worker goes after recv() returned frame f: the body of the inner loop
AfterFrame(f) ==
    IF f = "empty" THEN "inner"
    ELSE IF DecodeRaises(f) THEN "exc"
    ELSE IF f \in {"rec_on", "rec_off", "event_bad"} /\ EventRaises(f) THEN "exc"
    ELSE "inner"

\* message = self.ws.recv()
WRecvFrame(t) ==
    /\ wpc[t] = "recv"
    /\ CanWrite(ws)
    /\ \E f \in Frames : message' = [message EXCEPT ![t] = f]
    /\ wpc' = [wpc EXCEPT ![t] = "handle"]
    /\ UNCHANGED <<url, applying, recording_active, shared, sockets, sent, cpc, cjoin,
                   uiReady, label, calls>>

\* a dispatch that passes the event on without its eventData: the indicator is
\* switched on by every RecordStateChanged event
WHandle_IgnoresData(t) ==
    /\ wpc[t] = "handle"
    /\ wpc' = [wpc EXCEPT ![t] = AfterFrame(message[t])]
    /\ recording_active' = IF message[t] \in {"rec_on", "rec_off"}
                              THEN TRUE
                              ELSE recording_active
    /\ message' = IF AfterFrame(message[t]) = "exc"
                     THEN message
                     ELSE [message EXCEPT ![t] = "none"]
    /\ UNCHANGED <<url, applying, shared, sockets, sent, cpc, cjoin, uiReady, label,
                   calls>>

\* if not message: continue; data = json.loads(message); an op 5 frame with a d
\* goes to self.on_event(event_type, event_data), which for RecordStateChanged
\* stores eventData's outputActive in recording_active before it recolours the
\* indicator
WHandle(t) ==
    /\ wpc[t] = "handle"
    /\ wpc' = [wpc EXCEPT ![t] = AfterFrame(message[t])]
    /\ recording_active' = IF message[t] \in {"rec_on", "rec_off"}
                              THEN message[t] = "rec_on"
                              ELSE recording_active
    /\ message' = IF AfterFrame(message[t]) = "exc"
                     THEN message
                     ELSE [message EXCEPT ![t] = "none"]
    /\ UNCHANGED <<url, applying, shared, sockets, sent, cpc, cjoin, uiReady, label,
                   calls>>

\* a receive loop that swallows the error of recv() and goes on
WRecvFail_Continues(t) ==
    /\ wpc[t] = "recv"
    /\ ~CanWrite(ws)
    /\ wpc' = [wpc EXCEPT ![t] = "inner"]
    /\ UNCHANGED <<url, applying, message, recording_active, shared, sockets, sent, cpc,
                   cjoin, uiReady, label, calls>>

\* self.ws.recv() raising: the socket was closed by stop(), or the peer is gone
WRecvFail(t) ==
    /\ wpc[t] = "recv"
    /\ ~CanWrite(ws)
    /\ wpc' = [wpc EXCEPT ![t] = "exc"]
    /\ UNCHANGED <<url, applying, message, recording_active, shared, sockets, sent, cpc,
                   cjoin, uiReady, label, calls>>

\* except Exception: self.connected = False
WExcept(t) ==
    /\ wpc[t] = "exc"
    /\ connected' = FALSE
    /\ wpc' = [wpc EXCEPT ![t] = "exc_notify"]
    /\ UNCHANGED <<url, applying, message, recording_active, should_run, ws, thread,
                   request_id, config, sockets, sent, cpc, cjoin, uiReady, label,
                   calls>>

\* self.on_status_update("Reconnecting..."), inside the handler: an exception
\* here leaves run()
WExceptNotify(t) ==
    /\ wpc[t] = "exc_notify"
    /\ IF StatusRaises
         THEN /\ wpc' = [wpc EXCEPT ![t] = "dead"]
              /\ UNCHANGED label
         ELSE /\ label' = "Reconnecting..."
              /\ wpc' = [wpc EXCEPT ![t] = "sleep"]
    /\ UNCHANGED <<url, applying, message, recording_active, shared, sockets, sent, cpc,
                   cjoin, uiReady, calls>>

\* time.sleep(5)
WSleep(t) ==
    /\ wpc[t] = "sleep"
    /\ wpc' = [wpc EXCEPT ![t] = "test"]
    /\ message' = [message EXCEPT ![t] = "none"]
    /\ UNCHANGED <<url, applying, recording_active, shared, sockets, sent, cpc, cjoin,
                   uiReady, label, calls>>

Worker(t) ==
    \/ WTest(t) \/ WOpen(t) \/ WIdentify(t) \/ WAuth(t) \/ WSetConnected(t)
    \/ WNotify(t) \/ WSubscribe(t) \/ WSubscribeSend(t) \/ WInner(t)
    \/ WRecvFrame(t) \/ WHandle(t)
    \/ WRecvFail(t)
    \/ WExcept(t) \/ WExceptNotify(t) \/ WSleep(t)

\* ------------------------------------------------------------ the environment
\* the server closes the connection in use: later reads and writes on it raise
PeerClose ==
    /\ CanWrite(ws)
    /\ sockets' = [sockets EXCEPT ![ws] = "closed"]
    /\ UNCHANGED <<url, applying, message, recording_active, shared, sent, wpc, cpc,
                   cjoin, uiReady, label, calls>>

\* Overlay.__init__ goes on after creating the connector; setup_ui builds the
\* widgets, the status label among them
SetupUI ==
    /\ ~uiReady
    /\ uiReady' = TRUE
    /\ label' = "Connecting..."
    /\ UNCHANGED <<url, applying, message, recording_active, shared, sockets, sent, wpc,
                   cpc, cjoin, calls>>

\* ------------------------------------------------------------ the callers
NumCalls == Len(calls)

\* a thread of the application is free to make a call: the widgets that call
\* send(), stop() and apply_settings exist only once setup_ui has run
CanCall(c) ==
    /\ uiReady
    /\ Ready(c)
    /\ NumCalls < MaxCalls
    /\ \A d \in Callers : d < c => ~Ready(d)

\* the log entry of a call that caller c begins: the operation, and whether no
\* other call is in progress as it begins
Called(c, op) == Append(calls, <<op, \A d \in Callers \ {c} : Ready(d)>>)

\* connect(): if self.thread and self.thread.is_alive():
ConnectBegin(c) ==
    /\ CanCall(c)
    /\ calls' = Called(c, "connect")
    /\ cpc' = [cpc EXCEPT ![c] = IF thread # None /\ Alive(thread)
                                   THEN "c_clear" ELSE "c_create"]
    /\ UNCHANGED <<url, message, recording_active, shared, sockets, sent, wpc, cjoin,
                   uiReady, label>>

\* connect() called with the configuration as it is
ConnectCheck(c) ==
    /\ ConnectBegin(c)
    /\ UNCHANGED applying

\* connect(): self.should_run = False
ConnectClear(c) ==
    /\ cpc[c] = "c_clear"
    /\ should_run' = FALSE
    /\ cpc' = [cpc EXCEPT ![c] = "c_join"]
    /\ UNCHANGED <<url, applying, message, recording_active, connected, ws, thread,
                   request_id, config, sockets, sent, wpc, cjoin, uiReady, label,
                   calls>>

\* connect(): self.thread.join() is entered on the thread object self.thread
\* names now; Thread.join raises RuntimeError on a thread not yet started
ConnectJoin(c) ==
    /\ cpc[c] = "c_join"
    /\ IF wpc[thread] = "new"
         THEN /\ cpc' = [cpc EXCEPT ![c] = "raised"]
              /\ UNCHANGED cjoin
         ELSE /\ cpc' = [cpc EXCEPT ![c] = "c_wait"]
              /\ cjoin' = [cjoin EXCEPT ![c] = thread]
    /\ UNCHANGED <<url, applying, message, recording_active, shared, sockets, sent, wpc,
                   uiReady, label, calls>>

\* connect(): join() returns once that thread has ended
ConnectJoined(c) ==
    /\ cpc[c] = "c_wait"
    /\ ~Alive(cjoin[c])
    /\ cpc' = [cpc EXCEPT ![c] = "c_set"]
    /\ cjoin' = [cjoin EXCEPT ![c] = None]
    /\ UNCHANGED <<url, applying, message, recording_active, shared, sockets, sent, wpc,
                   uiReady, label, calls>>

\* connect(): self.should_run = True
ConnectSet(c) ==
    /\ cpc[c] = "c_set"
    /\ should_run' = TRUE
    /\ cpc' = [cpc EXCEPT ![c] = "c_create"]
    /\ UNCHANGED <<url, applying, message, recording_active, connected, ws, thread,
                   request_id, config, sockets, sent, wpc, cjoin, uiReady, label,
                   calls>>

\* connect(): self.thread = threading.Thread(target=run, daemon=True)
ConnectCreate(c) ==
    /\ cpc[c] = "c_create"
    /\ thread' = NumThreads + 1
    /\ wpc' = [wpc EXCEPT ![NumThreads + 1] = "new"]
    /\ cpc' = [cpc EXCEPT ![c] = "c_start"]
    /\ UNCHANGED <<url, applying, message, recording_active, should_run, connected, ws,
                   request_id, config, sockets, sent, cjoin, uiReady, label, calls>>

\* connect(): self.thread.start(); Thread.start raises RuntimeError on a thread
\* that was started before
ConnectStart(c) ==
    /\ cpc[c] = "c_start"
    /\ IF wpc[thread] = "new"
         THEN /\ wpc' = [wpc EXCEPT ![thread] = "test"]
              /\ cpc' = [cpc EXCEPT ![c] = "idle"]
         ELSE /\ cpc' = [cpc EXCEPT ![c] = "raised"]
              /\ UNCHANGED wpc
    /\ UNCHANGED <<url, applying, message, recording_active, shared, sockets, sent,
                   cjoin, uiReady, label, calls>>

\* send() without its test of self.connected
SendCheck_NoTest(c) ==
    /\ CanCall(c)
    /\ cpc' = [cpc EXCEPT ![c] = "s_write"]
    /\ calls' = Called(c, "send")
    /\ UNCHANGED <<url, applying, message, recording_active, shared, sockets, sent, wpc,
                   cjoin, uiReady, label>>

\* send(): if self.connected:
SendCheck(c) ==
    /\ CanCall(c)
    /\ IF connected
         THEN cpc' = [cpc EXCEPT ![c] = "s_write"]
         ELSE cpc' = [cpc EXCEPT ![c] = "idle"]
    /\ calls' = Called(c, "send")
    /\ UNCHANGED <<url, applying, message, recording_active, shared, sockets, sent, wpc,
                   cjoin, uiReady, label>>

\* send(): self.ws.send(json.dumps({"op": 6, ...})) inside try
SendWrite(c) ==
    /\ cpc[c] = "s_write"
    /\ IF CanWrite(ws)
         THEN /\ sent' = Append(sent, RequestFrame)
              /\ cpc' = [cpc EXCEPT ![c] = "idle"]
         ELSE /\ cpc' = [cpc EXCEPT ![c] = "s_fail"]
              /\ UNCHANGED sent
    /\ UNCHANGED <<url, applying, message, recording_active, shared, sockets, wpc,
                   cjoin, uiReady, label, calls>>

\* send() whose handler forgets to clear self.connected
SendFail_KeepsConnected(c) ==
    /\ cpc[c] = "s_fail"
    /\ cpc' = [cpc EXCEPT ![c] = "s_notify"]
    /\ UNCHANGED <<url, applying, message, recording_active, shared, sockets, sent, wpc,
                   cjoin, uiReady, label, calls>>

\* send(): except: self.connected = False
SendFail(c) ==
    /\ cpc[c] = "s_fail"
    /\ connected' = FALSE
    /\ cpc' = [cpc EXCEPT ![c] = "s_notify"]
    /\ UNCHANGED <<url, applying, message, recording_active, should_run, ws, thread,
                   request_id, config, sockets, sent, wpc, cjoin, uiReady, label,
                   calls>>

\* send(): self.on_status_update("Disconnected"), inside the handler
SendNotify(c) ==
    /\ cpc[c] = "s_notify"
    /\ IF StatusRaises
         THEN /\ cpc' = [cpc EXCEPT ![c] = "raised"]
              /\ UNCHANGED label
         ELSE /\ label' = "Disconnected"
              /\ cpc' = [cpc EXCEPT ![c] = "idle"]
    /\ UNCHANGED <<url, applying, message, recording_active, shared, sockets, sent, wpc,
                   cjoin, uiReady, calls>>

\* stop(): self.should_run = False
StopClear(c) ==
    /\ CanCall(c)
    /\ should_run' = FALSE
    /\ cpc' = [cpc EXCEPT ![c] = "st_close"]
    /\ calls' = Called(c, "stop")
    /\ UNCHANGED <<url, applying, message, recording_active, connected, ws, thread,
                   request_id, config, sockets, sent, wpc, cjoin, uiReady, label>>

\* self.ws.close() raises on a connection that is already gone
CloseRaises(s) == sockets[s] = "closed"

\* stop() that joins the worker thread before it closes the socket
StopClose_Joins(c) ==
    /\ cpc[c] = "st_close"
    /\ ~Alive(thread)
    /\ IF ws # None /\ ~CloseRaises(ws)
         THEN sockets' = [sockets EXCEPT ![ws] = "closed"]
         ELSE UNCHANGED sockets
    /\ cpc' = [cpc EXCEPT ![c] = "idle"]
    /\ UNCHANGED <<url, applying, message, recording_active, shared, sent, wpc, cjoin,
                   uiReady, label, calls>>

\* stop() that also drops the handle after closing it (self.ws = None)
StopClose_DropsHandle(c) ==
    /\ cpc[c] = "st_close"
    /\ IF ws # None /\ ~CloseRaises(ws)
         THEN sockets' = [sockets EXCEPT ![ws] = "closed"]
         ELSE UNCHANGED sockets
    /\ ws' = None
    /\ cpc' = [cpc EXCEPT ![c] = "idle"]
    /\ UNCHANGED <<url, applying, message, recording_active, should_run, connected,
                   thread, request_id, config, sent, wpc, cjoin, uiReady, label, calls>>

\* stop(): if self.ws: try: self.ws.close() except: pass
StopClose(c) ==
    /\ cpc[c] = "st_close"
    /\ IF ws # None /\ ~CloseRaises(ws)
         THEN sockets' = [sockets EXCEPT ![ws] = "closed"]
         ELSE UNCHANGED sockets
    /\ cpc' = [cpc EXCEPT ![c] = "idle"]
    /\ UNCHANGED <<url, applying, message, recording_active, shared, sent, wpc, cjoin,
                   uiReady, label, calls>>

Caller(c) ==
    \/ ConnectCheck(c) \/ ConnectClear(c) \/ ConnectJoin(c) \/ ConnectJoined(c)
    \/ ConnectSet(c) \/ ConnectCreate(c) \/ ConnectStart(c)
    \/ SendCheck(c) \/ SendWrite(c) \/ SendFail(c) \/ SendNotify(c)
    \/ StopClear(c) \/ StopClose(c)

\* ------------------------------------------------------------ apply_settings
\* apply(): config["obs_host"] = self.obs_host.get(), in the thread that the
\* Apply button starts; the button stays disabled until apply() has ended
ApplyHost ==
    /\ uiReady
    /\ applying.pc = "idle"
    /\ \E f \in Forms :
         /\ config' = [config EXCEPT !.obs_host = f.host]
         /\ applying' = [pc |-> "a_port", form |-> f]
    /\ UNCHANGED <<should_run, connected, ws, thread, request_id, sockets, sent, wpc,
                   cpc, cjoin, uiReady, label, message, recording_active, url, calls>>

\* apply(): config["obs_port"] = int(self.obs_port.get()); a ValueError ends
\* apply() in its except clause
ApplyPort ==
    /\ applying.pc = "a_port"
    /\ IF PortRaises(applying.form.port)
         THEN /\ applying' = NotApplying
              /\ UNCHANGED config
         ELSE /\ config' = [config EXCEPT !.obs_port = PortOf(applying.form.port)]
              /\ applying' = [applying EXCEPT !.pc = "a_pwd"]
    /\ UNCHANGED <<should_run, connected, ws, thread, request_id, sockets, sent, wpc,
                   cpc, cjoin, uiReady, label, message, recording_active, url, calls>>

\* apply(): config["obs_password"] = self.obs_pwd.get(), then save_config()
ApplyPassword ==
    /\ applying.pc = "a_pwd"
    /\ config' = [config EXCEPT !.obs_password = applying.form.pwd]
    /\ applying' = [applying EXCEPT !.pc = "a_connect"]
    /\ UNCHANGED <<should_run, connected, ws, thread, request_id, sockets, sent, wpc,
                   cpc, cjoin, uiReady, label, message, recording_active, url, calls>>

\* apply(): threading.Thread(target=self.obs.connect).start(); the new thread
\* enters connect() and apply() ends
ApplyConnect ==
    /\ applying.pc = "a_connect"
    /\ \E c \in Callers : ConnectBegin(c)
    /\ applying' = NotApplying

\* ------------------------------------------------------------ specifications
\* any number of application threads inside the connector at once
Next ==
    \/ \E t \in Threads : Worker(t)
    \/ \E c \in Callers : Caller(c)
    \/ PeerClose
    \/ SetupUI

Spec == Init /\ [][Next]_vars

\* one application thread: the calls follow one another, the worker runs beside
NextSeq ==
    \/ \E t \in Threads : Worker(t)
    \/ Caller(1)
    \/ PeerClose
    \/ SetupUI

SeqSpec == Init /\ [][NextSeq]_vars

\* the steps of a connect() that has begun
ConnectProgress(c) ==
    \/ ConnectClear(c) \/ ConnectJoin(c) \/ ConnectJoined(c) \/ ConnectSet(c)
    \/ ConnectCreate(c) \/ ConnectStart(c)

\* the connector beside a user who changes the settings: every connect() is
\* the one that apply() starts
NextSettings ==
    \/ \E t \in Threads : Worker(t)
    \/ \E c \in Callers : ConnectProgress(c)
    \/ PeerClose
    \/ SetupUI
    \/ ApplyHost
    \/ ApplyPort
    \/ ApplyPassword
    \/ ApplyConnect

SettingsSpec == Init /\ [][NextSettings]_vars

\* the steps a started thread takes on its own: everything but the arrival of a
\* frame, which is up to the server
WorkerProgress(t) ==
    \/ WTest(t) \/ WOpen(t) \/ WIdentify(t) \/ WAuth(t) \/ WSetConnected(t)
    \/ WNotify(t) \/ WSubscribe(t) \/ WSubscribeSend(t) \/ WInner(t) \/ WHandle(t)
    \/ WRecvFail(t)
    \/ WExcept(t) \/ WExceptNotify(t) \/ WSleep(t)

\* the steps of a call in progress
CallerProgress(c) ==
    \/ ConnectClear(c) \/ ConnectJoin(c) \/ ConnectJoined(c) \/ ConnectSet(c)
    \/ ConnectCreate(c) \/ ConnectStart(c)
    \/ SendWrite(c) \/ SendFail(c) \/ SendNotify(c)
    \/ StopClose(c)

\* every thread that can take a step of its own eventually takes one
FairSpec ==
    /\ SeqSpec
    /\ \A t \in Threads : WF_vars(WorkerProgress(t))
    /\ WF_vars(CallerProgress(1))
    /\ WF_vars(SetupUI)

\* ------------------------------------------------------------ properties
OpenSockets == {s \in Sockets : sockets[s] = "open"}

AllReady == \A c \in Callers : Ready(c)

\* C1: at most one worker loop (run() body) is live, whatever the interleaving
\* of connect(), stop(), send() and socket failures.
C1_AtMostOneLoop == Cardinality(LiveWorkers) <= 1

\* C2: stop() followed by connect() leaves exactly one running worker loop,
\* never zero or two.
C2_StopThenConnect ==
    (/\ calls = << <<"stop", TRUE>>, <<"connect", TRUE>> >>
     /\ AllReady)
        => Cardinality(LiveWorkers) = 1

\* the places of "sub" frames in what was written to the current socket
SubPlaces == {i \in DOMAIN sent : sent[i].op = 6 /\ sent[i].requestType = "Subscribe"}

\* C3: on a socket, exactly one subscribe frame is written after the handshake
\* and it precedes every command frame that send() writes on that socket.
C3_SubscribeFirst ==
    /\ \A i \in DOMAIN sent :
         sent[i] = RequestFrame => \E j \in SubPlaces : j < i
    /\ Cardinality(SubPlaces) <= 1

\* some stop() has returned and no connect() was called after it began
StopReturned ==
    /\ AllReady
    /\ \E i \in DOMAIN calls :
         /\ calls[i][1] = "stop"
         /\ \A j \in DOMAIN calls : j > i => calls[j][1] # "connect"

\* C4: connected is True only between a handshake and the first failure or
\* stop: not once stop() has returned, not once every worker has ended.
C4_ConnectedOnlyInSession ==
    (StopReturned \/ LiveWorkers = {}) => ~connected

\* a step in which a call of op begins
Begins(op) ==
    /\ Len(calls') = Len(calls) + 1
    /\ calls'[Len(calls')][1] = op

\* C5: a send() issued while connected is False is a silent no-op: no frame is
\* written, connected, ws, the run flag and the sockets stay as they are, the
\* status callback is not invoked and the call returns without raising.
C5_SendWhileDisconnected ==
    [][(Begins("send") /\ ~connected) =>
         /\ UNCHANGED <<sent, sockets, connected, ws, should_run, label>>
         /\ \A c \in Callers : cpc'[c] \in {cpc[c], "idle"}]_vars

\* a send() made before any socket was opened has returned: it found the
\* state not Connected
C5_Witness ==
    /\ calls = << <<"send", TRUE>> >>
    /\ NumSockets = 0
    /\ AllReady

\* no stop() and no further connect() has been called
NeverStopped == \A i \in DOMAIN calls : calls[i][1] = "send"

\* C6: as long as stop() has not been called, the worker loop never ends,
\* whatever fails (socket open, handshake, decode, closed connection).
C6_RetriesForever == NeverStopped => wpc[1] \notin {"done", "dead"}

ConnectPcs == {"c_clear", "c_join", "c_wait", "c_set", "c_create", "c_start"}

\* C7: every connect() call eventually returns, whatever the previous worker
\* is doing.
C7_ConnectReturns == \A c \in Callers : (cpc[c] \in ConnectPcs) ~> (cpc[c] = "idle")

\* C8: stop() never waits on the worker and never raises: in every worker state
\* it clears the run flag, closes the current socket if there is one, swallows
\* an error of close, and returns.
C8_StopNeverWaits ==
    /\ [](\A c \in Callers : cpc[c] = "st_close" => ENABLED StopClose(c))
    /\ [][\A c \in Callers :
            /\ (Begins("stop") /\ cpc'[c] # cpc[c]) =>
                   (~should_run' /\ cpc'[c] = "st_close")
            /\ (cpc[c] = "st_close" /\ cpc'[c] # "st_close") =>
                   /\ cpc'[c] = "idle"
                   /\ ws # None => sockets'[ws] = "closed"
                   /\ UNCHANGED <<should_run, connected, ws>>]_vars

\* stop() has returned, having closed the socket, while the worker is still
\* blocked in recv() on it
C8_Witness ==
    /\ AllReady
    /\ calls # <<>> /\ calls[Len(calls)][1] = "stop"
    /\ \E t \in Threads : wpc[t] = "recv"
    /\ ws # None /\ sockets[ws] = "closed"
    /\ ~should_run

\* C9: at most one socket opened by the instance is open at any time.
C9_OneOpenSocket == Cardinality(OpenSockets) <= 1

\* C10: when send() finds the state Connected and the write fails, connected
\* becomes False, the status callback is invoked once with "Disconnected" and
\* the call returns without raising.
C10_SendFailure ==
    [][\A c \in Callers :
         /\ (cpc[c] = "s_write" /\ ~CanWrite(ws) /\ cpc'[c] # "s_write") =>
                cpc'[c] = "s_fail"
         /\ (cpc[c] = "s_fail" /\ cpc'[c] # "s_fail") =>
                (~connected' /\ cpc'[c] = "s_notify" /\ label' = label)
         /\ (cpc[c] = "s_notify" /\ cpc'[c] # "s_notify") =>
                (label' = "Disconnected" /\ cpc'[c] = "idle")]_vars

\* a send() whose write failed has returned
C10_Witness ==
    /\ AllReady
    /\ calls # <<>> /\ calls[Len(calls)][1] = "send"
    /\ label = "Disconnected"
    /\ ~connected

\* worker t takes a step of run()
WStep(t) == wpc'[t] # wpc[t]

\* the stage worker t is at raises in this step: create_connection, a send of
\* the handshake or of subscribe_events, recv, or json.loads
StageFails(t) ==
    \/ wpc[t] = "open" /\ ws' = ws
    \/ wpc[t] \in {"identify", "auth", "sub_send", "recv"} /\ ~CanWrite(ws)
    \/ wpc[t] = "handle" /\ DecodeRaises(message[t])

\* C11: an exception at any stage of a worker iteration (open, identify send,
\* authenticate send, subscribe send, receive, decode) takes the worker into the
\* one handler: connected becomes False, "Reconnecting..." is reported (shown by
\* the label once setup_ui has made it) and the worker sleeps before the next
\* iteration; no failed stage leaves the worker outside the handler.
C11_UniformHandling ==
    [][\A t \in Threads :
         /\ (WStep(t) /\ StageFails(t)) => wpc'[t] = "exc"
         /\ (WStep(t) /\ wpc[t] = "exc") => (~connected' /\ wpc'[t] = "exc_notify")
         /\ (WStep(t) /\ wpc[t] = "exc_notify" /\ uiReady) =>
                (label' = "Reconnecting..." /\ wpc'[t] = "sleep")
         /\ (WStep(t) /\ wpc[t] = "sleep") => wpc'[t] = "test"]_vars

\* the frames a handshake writes under the configuration in force
HandshakeFrames ==
    IF config.obs_password # ""
      THEN <<IdentifyFrame, AuthFrame(config.obs_password)>>
      ELSE <<IdentifyFrame>>

IsPrefix(a, b) == Len(a) <= Len(b) /\ \A i \in DOMAIN a : a[i] = b[i]

\* C12: the frames written to a freshly opened socket before the state becomes
\* Connected are one identify frame, then one authenticate frame carrying the
\* password exactly when the password is not empty, in that order and nothing
\* else; connected is set only after those sends.
C12_HandshakeOrder ==
    /\ IsPrefix(sent, HandshakeFrames) \/ IsPrefix(HandshakeFrames, sent)
    /\ \A t \in Threads :
         /\ wpc[t] = "setconn" => sent = HandshakeFrames
         /\ wpc[t] \in {"identify", "auth"} => ~connected

\* the positions of run() between the report of "Connected" and the end of the
\* receive loop
SessionPcs == {"subscribe", "sub_send", "inner", "recv", "handle"}

\* C13: a session whose open and handshake succeed, that receives some frames
\* and whose next receive raises: the worker reports "Connected" as it enters
\* the session, no status while it subscribes and handles frames, then
\* "Reconnecting..." from the handler; it then sleeps the backoff and is back at
\* the loop test, from where it attempts a new open while the run flag is set.
C13_SessionStatuses ==
    /\ [](\A t \in Threads : wpc[t] \in SessionPcs => uiReady)
    /\ [][\A t \in Threads : WStep(t) =>
            /\ wpc'[t] = "subscribe" => (wpc[t] = "notify" /\ label' = "Connected")
            /\ wpc[t] \in SessionPcs => label' = label
            /\ (wpc[t] = "recv" /\ ~CanWrite(ws)) => wpc'[t] = "exc"
            /\ (wpc[t] = "exc" /\ uiReady) => (wpc'[t] = "exc_notify" /\ label' = label)
            /\ (wpc[t] = "exc_notify" /\ uiReady) =>
                   (wpc'[t] = "sleep" /\ label' = "Reconnecting...")
            /\ wpc[t] = "sleep" => (wpc'[t] = "test" /\ label' = label)
            /\ (wpc[t] = "test" /\ should_run) => wpc'[t] = "open"]_vars

\* with no call ever made, the first session received a RecordStateChanged
\* frame, lost its connection, and the worker is at its next open attempt
C13_Witness ==
    /\ calls = <<>>
    /\ wpc[1] = "open"
    /\ sockets[1] = "closed" /\ NumSockets = 1
    /\ recording_active
    /\ label = "Reconnecting..."

\* C14: a frame with op 5 and a d is handed to the event callback once, with
\* its eventType and eventData (a RecordStateChanged event sets recording_active
\* to its outputActive), one frame after the other; a frame with another op
\* calls nothing and changes nothing.
C14_EventDispatch ==
    [][\A t \in Threads : (WStep(t) /\ wpc[t] = "handle") =>
         /\ message[t] = "rec_on" => (recording_active' /\ wpc'[t] = "inner")
         /\ message[t] = "rec_off" => (~recording_active' /\ wpc'[t] = "inner")
         /\ message[t] = "ack" =>
                /\ wpc'[t] = "inner"
                /\ UNCHANGED <<recording_active, label, shared, sockets, sent>>
         /\ wpc'[t] = "inner" => message'[t] = "none"]_vars

\* a RecordStateChanged event with outputActive true was dispatched and an
\* acknowledgement is the frame now being handled
C14_Witness ==
    \E t \in Threads :
        /\ wpc[t] = "handle"
        /\ message[t] = "ack"
        /\ recording_active

\* a thread of the application takes a step inside connect(), send() or stop()
CallerStep == <<cpc, calls>>' # <<cpc, calls>>

\* C15: the socket handle and connected are written only by the worker, and
\* the one write a caller thread performs is stop() clearing the run flag: no
\* step of connect(), send() or stop() assigns connected or ws, and no step of
\* connect() or send() assigns the run flag.
C15_CallerWrites ==
    [][CallerStep =>
         /\ UNCHANGED <<connected, ws>>
         /\ should_run' # should_run => Begins("stop")]_vars

\* C15, amended: no step of connect(), send() or stop() assigns ws; the only
\* caller write of connected is send()'s failure handler setting it False; the
\* only caller writes of the run flag are stop() clearing it and connect()
\* clearing it before its join and setting it after.
C15_CallerWritesAmended ==
    [][CallerStep =>
         /\ UNCHANGED ws
         /\ connected' # connected =>
                (~connected' /\ \E c \in Callers : cpc[c] = "s_fail")
         /\ should_run' # should_run =>
                \/ Begins("stop") /\ ~should_run'
                \/ \E c \in Callers : cpc[c] = "c_clear" /\ ~should_run'
                \/ \E c \in Callers : cpc[c] = "c_set" /\ should_run']_vars

\* after a connect() that stopped the first worker and set the run flag again,
\* a send() has cleared connected in its failure handler
C15_Witness ==
    /\ Len(calls) = 2 /\ calls[1][1] = "connect" /\ calls[2][1] = "send"
    /\ wpc[1] = "done" /\ should_run
    /\ cpc[1] = "s_notify" /\ ~connected

\* the configurations that were in force as a whole: the one loaded at start
\* and every form that Apply can store
WholeConfigs ==
    [obs_host : {"localhost"}, obs_port : {4455}, obs_password : Passwords]
    \cup {[obs_host |-> f.host, obs_port |-> PortOf(f.port), obs_password |-> f.pwd] :
            f \in {g \in Forms : ~PortRaises(g.port)}}

AuthPlaces == {i \in DOMAIN sent : sent[i].op = 3}

\* C16: the configuration does not change during a connection attempt: the
\* host and port the socket was opened with and the password of the
\* authenticate frame come from one configuration, and no authenticate frame
\* carries an empty password.
C16_ConfigPerAttempt ==
    /\ \A i \in AuthPlaces : sent[i].authentication # ""
    /\ ws # None =>
          \E f \in WholeConfigs :
              /\ url = <<f.obs_host, f.obs_port>>
              /\ \A i \in AuthPlaces : sent[i].authentication = f.obs_password

\* C17: between two consecutive open attempts of one worker there is a
\* "Reconnecting..." report and a backoff sleep: a worker whose try block ended
\* without an exception (the receive loop was left because connected or the run
\* flag was cleared) does not go straight to the next open.
C17_BackoffBetweenOpens ==
    [][\A t \in Threads : wpc[t] = "again" => wpc'[t] # "open"]_vars

\* C18: once stop() has returned, with no connect() after it: when every worker
\* has ended no socket that the instance opened is still open, and no worker
\* reports "Connected" any more, wherever in the worker's iteration the stop()
\* came.
C18_StopLeavesNothing ==
    /\ []((StopReturned /\ LiveWorkers = {}) => OpenSockets = {})
    /\ [][StopReturned =>
            \A t \in Threads : ~(wpc[t] = "notify" /\ wpc'[t] = "subscribe")]_vars

\* C19: an exception of the event callback during the dispatch of an event is
\* handled like a connection failure: the worker enters the handler, connected
\* becomes False, "Reconnecting..." is reported, the worker sleeps and is back at
\* the loop test, from where it opens a new socket while the run flag is set;
\* the worker does not end.
C19_EventCallbackRaises ==
    [][\A t \in Threads : WStep(t) =>
         /\ (wpc[t] = "handle" /\ message[t] = "event_bad") =>
                (wpc'[t] = "exc" /\ message'[t] = "event_bad")
         /\ (wpc[t] = "exc" /\ message[t] = "event_bad") =>
                (~connected' /\ wpc'[t] = "exc_notify" /\ message'[t] = "event_bad")
         /\ (wpc[t] = "exc_notify" /\ message[t] = "event_bad") =>
                (label' = "Reconnecting..." /\ wpc'[t] = "sleep"
                 /\ message'[t] = "event_bad")
         /\ (wpc[t] = "sleep" /\ message[t] = "event_bad") => wpc'[t] = "test"
         /\ (wpc[t] = "test" /\ should_run) => wpc'[t] = "open"]_vars

\* the event callback raised on a frame and the worker, having reported
\* "Reconnecting...", is in its backoff sleep
C19_Witness ==
    \E t \in Threads :
        /\ wpc[t] = "sleep"
        /\ message[t] = "event_bad"
        /\ label = "Reconnecting..."
        /\ ~connected

\* C20: an empty frame is skipped: handling it calls no callback, reports no
\* status, leaves connected, the socket and the overlay as they are and starts
\* no reconnect; the worker is back at the test of the receive loop and, with
\* connected and the run flag still set, receives again on the same socket.
C20_EmptyFrameSkipped ==
    [][\A t \in Threads : WStep(t) =>
         /\ (wpc[t] = "handle" /\ message[t] = "empty") =>
                /\ wpc'[t] = "inner"
                /\ UNCHANGED <<recording_active, label, shared, sockets, sent>>
         /\ (wpc[t] = "inner" /\ connected /\ should_run) =>
                (wpc'[t] = "recv" /\ UNCHANGED <<ws, sockets>>)]_vars

\* recv() has returned an empty frame to a worker in a session
C20_Witness ==
    \E t \in Threads :
        /\ wpc[t] = "handle"
        /\ message[t] = "empty"
        /\ connected /\ should_run
        /\ label = "Connected"

\* the places of send()'s request frames in what was written to the current
\* socket
RequestPlaces == {i \in DOMAIN sent : sent[i].op = 6 /\ sent[i].requestType # "Subscribe"}

\* C21: request_id starts at 0 and every call of subscribe_events adds exactly
\* one to it, whether or not its send succeeds; the frame that the n-th call
\* writes carries "sub_n", so no two subscribe frames of the instance carry the
\* same requestId; every request frame of send() carries requestId "1".
C21_RequestIds ==
    /\ request_id = 0
    /\ [](\A i, j \in SubPlaces : sent[i].requestId = sent[j].requestId => i = j)
    /\ [](\A i \in RequestPlaces : sent[i].requestId = <<"1">>)
    /\ [][\A t \in Threads : WStep(t) =>
            /\ wpc[t] = "subscribe" =>
                   (request_id' = request_id + 1 /\ wpc'[t] = "sub_send")
            /\ wpc[t] # "subscribe" => request_id' = request_id
            /\ (wpc[t] = "sub_send" /\ CanWrite(ws)) =>
                   sent' = Append(sent, SubscribeFrame(request_id))]_vars

====
